---------------------------- MODULE Spec2Model ----------------------------
(***************************************************************************)
(* A model of the Graph class of bfs-prim-binary-complete-binary           *)
(* (include/graph.hpp): the node and edge storage, load, bfs, prim and     *)
(* the two tree-shape predicates.                                          *)
(*                                                                         *)
(* A Node* is modelled as the index of the node in the vector `nodes`      *)
(* (1..Len(nodes)); nullptr is NULL = 0.  An Edge holds two such indices   *)
(* and a weight.  The classes Node and Edge live in node.hpp / edge.hpp;   *)
(* their accessors are modelled as plain field reads and writes.           *)
(***************************************************************************)
EXTENDS Integers, Sequences, FiniteSets, TLC

INT_MAX == 2147483647
NULL == 0

\* Bounds of the model.
MaxNodes == 3
MaxEdges == 2
MaxLines == 2
MaxWeight == 1
MaxRuns == 2

Weights == 0..MaxWeight
\* Node ids an input line may name: 0..MaxNodes-1 can be nodes, MaxNodes never is.
LineIds == 0..MaxNodes

VARIABLES
  nodes,      \* std::vector<unique_node_ptr> nodes: a sequence of Node records
  edges,      \* std::vector<unique_edge_ptr> edges: a sequence of Edge records
  tot_nodes,  \* int tot_nodes
  tot_edges,  \* int tot_edges
  pc,         \* "idle", or the handler that is running: "load", "bfs", "prim"
  q,          \* bfs: std::queue<Node*> q
  pq,         \* prim: the vector under std::priority_queue pq (a binary heap)
  in_mst,     \* prim: std::set<Node*> in_mst
  stdlib,     \* the standard library the program was built with
  last,       \* the latest call: its name, its argument (bfs, prim: the source;
              \* load: the number of edge lines it dropped) and what it returned
  snap,       \* distances and predecessors when a run was started right after
              \* the same run, <<>> otherwise
  origin,     \* "load" or "reset": the call that last emptied the store
  nlines,     \* load: the number of edge lines read so far
  runs        \* the number of bfs/prim calls since the store was last emptied

vars == <<nodes, edges, tot_nodes, tot_edges, pc, q, pq, in_mst, stdlib, last,
          snap, origin, nlines, runs>>
store == <<nodes, edges, tot_nodes, tot_edges>>

Builds == {"libstdc++", "libc++"}

-----------------------------------------------------------------------------
(* Node and Edge *)

\* Node(int data): a fresh node, not yet searched.
Node(data) ==
  [data |-> data, adj |-> <<>>, color |-> "white", distance |-> INT_MAX,
   predecessor |-> NULL]

\* Edge(Node* src, Node* dest, int weight)
Edge(src, dest, weight) == [source |-> src, destination |-> dest, weight |-> weight]

\* Node::add_adjacent: u's adjacency list gets v at its end.
add_adjacent(ns, u, v) == [ns EXCEPT ![u].adj = Append(@, v)]

-----------------------------------------------------------------------------
(* The store: reset, insert_node, insert_edge, get_node, get_edge.  A store *)
(* value is a record [nodes, edges, tot_nodes, tot_edges].                  *)

Store(ns, es, tn, te) == [nodes |-> ns, edges |-> es, tot_nodes |-> tn, tot_edges |-> te]

\* reset without line 38: the storage is cleared, the counts are kept.
reset_keeps_counts(g) == Store(<<>>, <<>>, g.tot_nodes, g.tot_edges)

reset(g) == Store(<<>>, <<>>, 0, 0)

insert_node(g, node) ==
  LET ns == Append(g.nodes, node)
  IN  [g EXCEPT !.nodes = ns,
                !.tot_nodes = IF Len(ns) > g.tot_nodes THEN Len(ns) ELSE g.tot_nodes]

\* insert_edge without line 77: the edge is registered with its source only.
insert_edge_one_way(g, edge) ==
  LET ns1 == add_adjacent(g.nodes, edge.source, edge.destination)
      es  == Append(g.edges, edge)
  IN  [g EXCEPT !.nodes = ns1, !.edges = es,
                !.tot_edges = IF Len(es) > g.tot_edges THEN Len(es) ELSE g.tot_edges]

insert_edge(g, edge) ==
  LET ns1 == add_adjacent(g.nodes, edge.source, edge.destination)
      ns2 == add_adjacent(ns1, edge.destination, edge.source)
      es  == Append(g.edges, edge)
  IN  [g EXCEPT !.nodes = ns2, !.edges = es,
                !.tot_edges = IF Len(es) > g.tot_edges THEN Len(es) ELSE g.tot_edges]

\* get_node: the first node whose data is `data`, nullptr when there is none.
RECURSIVE get_node_from(_, _, _)
get_node_from(ns, data, i) ==
  IF i > Len(ns) THEN NULL
  ELSE IF ns[i].data = data THEN i
  ELSE get_node_from(ns, data, i + 1)

get_node(ns, data) == get_node_from(ns, data, 1)

\* get_edge: the index of the first edge joining src and dest in either
\* orientation, NULL when there is none.
RECURSIVE get_edge_from(_, _, _, _)
get_edge_from(es, src, dest, i) ==
  IF i > Len(es) THEN NULL
  ELSE IF \/ (es[i].source = src /\ es[i].destination = dest)
          \/ (es[i].source = dest /\ es[i].destination = src) THEN i
  ELSE get_edge_from(es, src, dest, i + 1)

get_edge(es, src, dest) == get_edge_from(es, src, dest, 1)

\* load, up to the first edge line: reset, the header, the nodes 0..tot_nodes-1.
RECURSIVE load_nodes(_, _)
load_nodes(g, i) ==
  IF i < g.tot_nodes THEN load_nodes(insert_node(g, Node(i)), i + 1) ELSE g

load_header(g, n, e) ==
  load_nodes([reset(g) EXCEPT !.tot_nodes = n, !.tot_edges = e], 0)

\* load, one edge line "src dest weight".
load_line(g, src_data, dest_data, weight) ==
  LET src  == get_node(g.nodes, src_data)
      dest == get_node(g.nodes, dest_data)
  IN  IF src # NULL /\ dest # NULL THEN insert_edge(g, Edge(src, dest, weight)) ELSE g

-----------------------------------------------------------------------------
(* bfs *)

\* bfs's reset without line 104: the predecessors are kept.
bfs_reset_keeps_predecessor(ns) ==
  [i \in 1..Len(ns) |-> [ns[i] EXCEPT !.color = "white", !.distance = INT_MAX]]

\* Lines 102-106: every node white, no predecessor, distance INT_MAX.
bfs_reset(ns) ==
  [i \in 1..Len(ns) |->
     [ns[i] EXCEPT !.color = "white", !.predecessor = NULL, !.distance = INT_MAX]]

\* Lines 102-113: the reset, the source's marks, the queue holding the source.
bfs_init(ns, src) ==
  [nodes |-> [bfs_reset(ns) EXCEPT ![src].distance = 0, ![src].color = "gray",
                                   ![src].predecessor = NULL],
   q |-> <<src>>]

\* Lines 119-126 with line 120 testing for "not black" instead of white.
RECURSIVE bfs_visit_not_black(_, _, _, _)
bfs_visit_not_black(ns, qu, node, k) ==
  IF k > Len(ns[node].adj) THEN [nodes |-> ns, q |-> qu]
  ELSE LET adj == ns[node].adj[k]
       IN  IF ns[adj].color # "black"
           THEN bfs_visit_not_black([ns EXCEPT ![adj].color = "gray",
                                               ![adj].predecessor = node,
                                               ![adj].distance = ns[node].distance + 1],
                                    Append(qu, adj), node, k + 1)
           ELSE bfs_visit_not_black(ns, qu, node, k + 1)

\* Lines 119-126 without line 121: a discovered node stays white.
RECURSIVE bfs_visit_stays_white(_, _, _, _)
bfs_visit_stays_white(ns, qu, node, k) ==
  IF k > Len(ns[node].adj) THEN [nodes |-> ns, q |-> qu]
  ELSE LET adj == ns[node].adj[k]
       IN  IF ns[adj].color = "white"
           THEN bfs_visit_stays_white([ns EXCEPT ![adj].predecessor = node,
                                                 ![adj].distance = ns[node].distance + 1],
                                      Append(qu, adj), node, k + 1)
           ELSE bfs_visit_stays_white(ns, qu, node, k + 1)

\* Lines 119-126 without line 122: no predecessor is recorded.
RECURSIVE bfs_visit_no_predecessor(_, _, _, _)
bfs_visit_no_predecessor(ns, qu, node, k) ==
  IF k > Len(ns[node].adj) THEN [nodes |-> ns, q |-> qu]
  ELSE LET adj == ns[node].adj[k]
       IN  IF ns[adj].color = "white"
           THEN bfs_visit_no_predecessor([ns EXCEPT ![adj].color = "gray",
                                                    ![adj].distance = ns[node].distance + 1],
                                         Append(qu, adj), node, k + 1)
           ELSE bfs_visit_no_predecessor(ns, qu, node, k + 1)

\* Lines 119-126: the adjacency list of `node` from its k-th entry on.
RECURSIVE bfs_visit(_, _, _, _)
bfs_visit(ns, qu, node, k) ==
  IF k > Len(ns[node].adj) THEN [nodes |-> ns, q |-> qu]
  ELSE LET adj == ns[node].adj[k]
       IN  IF ns[adj].color = "white"
           THEN bfs_visit([ns EXCEPT ![adj].color = "gray",
                                     ![adj].predecessor = node,
                                     ![adj].distance = ns[node].distance + 1],
                          Append(qu, adj), node, k + 1)
           ELSE bfs_visit(ns, qu, node, k + 1)

\* Lines 116-127: one turn of the while loop without line 128.
bfs_step_leaves_gray(ns, qu) == bfs_visit(ns, Tail(qu), Head(qu), 1)

\* Lines 116-128: one turn of the while loop.
bfs_step(ns, qu) ==
  LET node == Head(qu)
      r    == bfs_visit(ns, Tail(qu), node, 1)
  IN  [r EXCEPT !.nodes[node].color = "black"]

-----------------------------------------------------------------------------
(* prim: the priority queue.  std::priority_queue<Node*, vector, Compare>   *)
(* keeps its vector as a binary heap with push_heap and pop_heap; Compare   *)
(* reads the nodes' distances as they are when it is called.  prim lowers   *)
(* the distance of nodes that are in the queue, after which the vector need *)
(* not be a heap any more and what push_heap and pop_heap make of it is up  *)
(* to the library: both libstdc++'s and libc++'s are modelled, and the      *)
(* variable stdlib says which one the program was built with.  The heap h   *)
(* is 1-based here: C++'s first[i] is h[i + 1].                             *)

\* Compare::operator(): node1's distance is greater than node2's.
Compare(ns, node1, node2) == ns[node1].distance > ns[node2].distance

\* Sift `value` up from the hole to at most `top` (libstdc++ __push_heap,
\* libc++ __sift_up).
RECURSIVE sift_up(_, _, _, _, _)
sift_up(ns, h, hole, top, value) ==
  LET parent == (hole - 1) \div 2
  IN  IF hole > top /\ Compare(ns, h[parent + 1], value)
      THEN sift_up(ns, [h EXCEPT ![hole + 1] = h[parent + 1]], parent, top, value)
      ELSE [h EXCEPT ![hole + 1] = value]

\* pq.push(v): push_back, then push_heap.
pq_push(ns, h, v) == sift_up(ns, Append(h, v), Len(h), 0, v)

\* libstdc++ __adjust_heap, its loop: the hole moves down to the child that
\* Compare does not put after its sibling (the right one on a tie).
RECURSIVE adjust_down(_, _, _, _)
adjust_down(ns, h, hole, len) ==
  IF hole < (len - 1) \div 2
  THEN LET right == 2 * (hole + 1)
           child == IF Compare(ns, h[right + 1], h[right]) THEN right - 1 ELSE right
       IN  adjust_down(ns, [h EXCEPT ![hole + 1] = h[child + 1]], child, len)
  ELSE [h |-> h, hole |-> hole]

\* libstdc++ __adjust_heap(first, 0, len, value).
adjust_heap(ns, h, len, value) ==
  LET d == adjust_down(ns, h, 0, len)
      e == IF len % 2 = 0 /\ d.hole = (len - 2) \div 2
           THEN [h |-> [d.h EXCEPT ![d.hole + 1] = d.h[2 * (d.hole + 1)]],
                 hole |-> 2 * (d.hole + 1) - 1]
           ELSE d
  IN  sift_up(ns, e.h, e.hole, 0, value)

\* libstdc++ pop_heap then pop_back.
pop_libstdcxx(ns, h) ==
  LET len == Len(h)
  IN  IF len > 1
      THEN SubSeq(adjust_heap(ns, [h EXCEPT ![len] = h[1]], len - 1, h[len]), 1, len - 1)
      ELSE <<>>

\* libc++ __floyd_sift_down: the hole moves down to a leaf, to the right child
\* only when Compare puts the left one after it (the left one on a tie).
RECURSIVE floyd_sift_down(_, _, _, _)
floyd_sift_down(ns, h, hole, len) ==
  LET left  == 2 * hole + 1
      child == IF left + 1 < len /\ Compare(ns, h[left + 1], h[left + 2])
               THEN left + 1 ELSE left
      h1    == [h EXCEPT ![hole + 1] = h[child + 1]]
  IN  IF child > (len - 2) \div 2 THEN [h |-> h1, hole |-> child]
      ELSE floyd_sift_down(ns, h1, child, len)

\* libc++ pop_heap then pop_back.
pop_libcxx(ns, h) ==
  LET len == Len(h)
  IN  IF len > 1
      THEN LET d == floyd_sift_down(ns, h, 0, len)
           IN  IF d.hole = len - 1 THEN SubSeq(d.h, 1, len - 1)
               ELSE SubSeq(sift_up(ns, d.h, d.hole, 0, h[len]), 1, len - 1)
      ELSE <<>>

\* pq.pop()
pq_pop(ns, h, lib) == IF lib = "libstdc++" THEN pop_libstdcxx(ns, h) ELSE pop_libcxx(ns, h)

-----------------------------------------------------------------------------
(* prim *)

\* prim's reset without line 143: the distances are kept.
prim_reset_keeps_distance(ns) ==
  [i \in 1..Len(ns) |-> [ns[i] EXCEPT !.predecessor = NULL]]

\* prim's reset without line 144: the predecessors are kept.
prim_reset_keeps_predecessor(ns) ==
  [i \in 1..Len(ns) |-> [ns[i] EXCEPT !.distance = INT_MAX]]

\* Lines 142-145: every node's distance INT_MAX, no predecessor.
prim_reset(ns) ==
  [i \in 1..Len(ns) |-> [ns[i] EXCEPT !.distance = INT_MAX, !.predecessor = NULL]]

\* Lines 142-153.
prim_init(ns, src) ==
  LET ns1 == [prim_reset(ns) EXCEPT ![src].distance = 0, ![src].predecessor = NULL]
  IN  [nodes |-> ns1, pq |-> pq_push(ns1, <<>>, src), in_mst |-> {}]

\* Lines 160-167 with >= for > in line 163.
RECURSIVE prim_relax_not_less(_, _, _, _, _, _)
prim_relax_not_less(ns, es, h, mst, node, k) ==
  IF k > Len(ns[node].adj) THEN [nodes |-> ns, pq |-> h, in_mst |-> mst]
  ELSE LET adj  == ns[node].adj[k]
           edge == es[get_edge(es, node, adj)]
       IN  IF adj \notin mst /\ ns[adj].distance >= edge.weight
           THEN LET ns1 == [ns EXCEPT ![adj].predecessor = node,
                                      ![adj].distance = edge.weight]
                IN  prim_relax_not_less(ns1, es, pq_push(ns1, h, adj), mst, node, k + 1)
           ELSE prim_relax_not_less(ns, es, h, mst, node, k + 1)

\* Lines 160-167 without line 165: the distance is not recorded.
RECURSIVE prim_relax_keeps_distance(_, _, _, _, _, _)
prim_relax_keeps_distance(ns, es, h, mst, node, k) ==
  IF k > Len(ns[node].adj) THEN [nodes |-> ns, pq |-> h, in_mst |-> mst]
  ELSE LET adj  == ns[node].adj[k]
           edge == es[get_edge(es, node, adj)]
       IN  IF adj \notin mst /\ ns[adj].distance > edge.weight
           THEN LET ns1 == [ns EXCEPT ![adj].predecessor = node]
                IN  prim_relax_keeps_distance(ns1, es, pq_push(ns1, h, adj), mst, node,
                                              k + 1)
           ELSE prim_relax_keeps_distance(ns, es, h, mst, node, k + 1)

\* Lines 160-167 without the test of line 163 for in_mst.
RECURSIVE prim_relax_committed_too(_, _, _, _, _, _)
prim_relax_committed_too(ns, es, h, mst, node, k) ==
  IF k > Len(ns[node].adj) THEN [nodes |-> ns, pq |-> h, in_mst |-> mst]
  ELSE LET adj  == ns[node].adj[k]
           edge == es[get_edge(es, node, adj)]
       IN  IF ns[adj].distance > edge.weight
           THEN LET ns1 == [ns EXCEPT ![adj].predecessor = node,
                                      ![adj].distance = edge.weight]
                IN  prim_relax_committed_too(ns1, es, pq_push(ns1, h, adj), mst, node,
                                             k + 1)
           ELSE prim_relax_committed_too(ns, es, h, mst, node, k + 1)

\* Lines 160-168: the adjacency list of `node` from its k-th entry on.
RECURSIVE prim_relax(_, _, _, _, _, _)
prim_relax(ns, es, h, mst, node, k) ==
  IF k > Len(ns[node].adj) THEN [nodes |-> ns, pq |-> h, in_mst |-> mst]
  ELSE LET adj  == ns[node].adj[k]
           edge == es[get_edge(es, node, adj)]
       IN  IF adj \notin mst /\ ns[adj].distance > edge.weight
           THEN LET ns1 == [ns EXCEPT ![adj].predecessor = node,
                                      ![adj].distance = edge.weight]
                IN  prim_relax(ns1, es, pq_push(ns1, h, adj), mst, node, k + 1)
           ELSE prim_relax(ns, es, h, mst, node, k + 1)

\* Lines 156-168: one turn of the while loop.
prim_step(ns, es, h, mst, lib) ==
  LET node == h[1]
  IN  prim_relax(ns, es, pq_pop(ns, h, lib), mst \cup {node}, node, 1)

-----------------------------------------------------------------------------
(* is_binary, is_complete_binary *)

\* Lines 182-184: the entries of `node`'s adjacency list, from the k-th on,
\* that are not its predecessor, counted.
RECURSIVE count_children(_, _, _)
count_children(ns, node, k) ==
  IF k > Len(ns[node].adj) THEN 0
  ELSE (IF ns[node].adj[k] # ns[node].predecessor THEN 1 ELSE 0)
       + count_children(ns, node, k + 1)

\* Lines 179-189 with line 186 testing children >= 2.
RECURSIVE is_binary_from_two(_, _)
is_binary_from_two(ns, i) ==
  IF i > Len(ns) THEN [ret |-> TRUE, nodes |-> ns]
  ELSE IF count_children(ns, i, 1) >= 2 THEN [ret |-> FALSE, nodes |-> ns]
  ELSE is_binary_from_two(ns, i + 1)

\* Lines 179-189, from node i on.
\* The result is the value returned and the nodes as the call leaves them.
RECURSIVE is_binary_from(_, _)
is_binary_from(ns, i) ==
  IF i > Len(ns) THEN [ret |-> TRUE, nodes |-> ns]
  ELSE IF count_children(ns, i, 1) > 2 THEN [ret |-> FALSE, nodes |-> ns]
  ELSE is_binary_from(ns, i + 1)

is_binary(ns) == is_binary_from(ns, 1)

\* Lines 196-198: the scratch vector `children` of `node`.
RECURSIVE collect_children(_, _, _)
collect_children(ns, node, k) ==
  IF k > Len(ns[node].adj) THEN <<>>
  ELSE (IF ns[node].adj[k] # ns[node].predecessor THEN <<ns[node].adj[k]>> ELSE <<>>)
       \o collect_children(ns, node, k + 1)

\* Lines 193-206 with line 200 lacking !children.empty().
RECURSIVE is_complete_binary_from_leaf(_, _)
is_complete_binary_from_leaf(ns, i) ==
  IF i > Len(ns) THEN [ret |-> TRUE, nodes |-> ns]
  ELSE LET children == collect_children(ns, i, 1)
       IN  IF Len(children) < 2 THEN [ret |-> FALSE, nodes |-> ns]
           ELSE is_complete_binary_from_leaf(ns, i + 1)

\* Lines 193-206 with line 201 clearing the node's adjacency list instead of
\* the scratch vector.
RECURSIVE is_complete_binary_from_clear(_, _)
is_complete_binary_from_clear(ns, i) ==
  IF i > Len(ns) THEN [ret |-> TRUE, nodes |-> ns]
  ELSE LET children == collect_children(ns, i, 1)
       IN  IF children # <<>> /\ Len(children) < 2
           THEN [ret |-> FALSE, nodes |-> [ns EXCEPT ![i].adj = <<>>]]
           ELSE is_complete_binary_from_clear(ns, i + 1)

\* Lines 193-206, from node i on.
RECURSIVE is_complete_binary_from(_, _)
is_complete_binary_from(ns, i) ==
  IF i > Len(ns) THEN [ret |-> TRUE, nodes |-> ns]
  ELSE LET children == collect_children(ns, i, 1)
       IN  IF children # <<>> /\ Len(children) < 2 THEN [ret |-> FALSE, nodes |-> ns]
           ELSE is_complete_binary_from(ns, i + 1)

is_complete_binary(ns) == is_complete_binary_from(ns, 1)

-----------------------------------------------------------------------------
(* The calls a client makes, as actions *)

G == Store(nodes, edges, tot_nodes, tot_edges)

Call(op, a, ret) == [op |-> op, a |-> a, ret |-> ret]

SetStore(g) ==
  /\ nodes' = g.nodes
  /\ edges' = g.edges
  /\ tot_nodes' = g.tot_nodes
  /\ tot_edges' = g.tot_edges

\* The distances and predecessors of all nodes.
Marks(ns) == [i \in 1..Len(ns) |-> <<ns[i].distance, ns[i].predecessor>>]

\* The state once Graph(input) has loaded a file that declares no node and no
\* edge; load may be called again.
Init ==
  /\ nodes = <<>>
  /\ edges = <<>>
  /\ tot_nodes = 0
  /\ tot_edges = 0
  /\ pc = "idle"
  /\ q = <<>>
  /\ pq = <<>>
  /\ in_mst = {}
  /\ stdlib \in Builds
  /\ last = Call("load", 0, FALSE)
  /\ snap = <<>>
  /\ origin = "load"
  /\ nlines = 0
  /\ runs = 0

Reset ==
  /\ pc = "idle"
  /\ SetStore(reset(G))
  /\ last' = Call("reset", 0, FALSE)
  /\ origin' = "reset"
  /\ runs' = 0
  /\ snap' = <<>>
  /\ UNCHANGED <<pc, q, pq, in_mst, stdlib, nlines>>

\* load: reset, the header "n e", the nodes.
LoadBegin(n, e) ==
  /\ pc = "idle"
  /\ SetStore(load_header(G, n, e))
  /\ pc' = "load"
  /\ last' = Call("load", 0, FALSE)
  /\ origin' = "load"
  /\ runs' = 0
  /\ nlines' = 0
  /\ snap' = <<>>
  /\ UNCHANGED <<q, pq, in_mst, stdlib>>

\* load: getline reads one more edge line.
LoadLine(src_data, dest_data, weight) ==
  /\ pc = "load"
  /\ nlines < MaxLines
  /\ SetStore(load_line(G, src_data, dest_data, weight))
  /\ nlines' = nlines + 1
  /\ last' = IF get_node(nodes, src_data) # NULL /\ get_node(nodes, dest_data) # NULL
             THEN last ELSE [last EXCEPT !.a = @ + 1]
  /\ UNCHANGED <<pc, q, pq, in_mst, stdlib, snap, origin, runs>>

\* load: getline fails, the input is at its end.
LoadEnd ==
  /\ pc = "load"
  /\ pc' = "idle"
  /\ nlines' = 0
  /\ UNCHANGED <<nodes, edges, tot_nodes, tot_edges, q, pq, in_mst, stdlib, last,
                 snap, origin, runs>>

\* insert_node with a node of a new id.
InsertNode(data) ==
  /\ pc = "idle"
  /\ Len(nodes) < MaxNodes
  /\ SetStore(insert_node(G, Node(data)))
  /\ last' = Call("insert_node", 0, FALSE)
  /\ snap' = <<>>
  /\ UNCHANGED <<pc, q, pq, in_mst, stdlib, origin, nlines, runs>>

\* insert_edge with an edge between two nodes of the store.
InsertEdge(src, dest, weight) ==
  /\ pc = "idle"
  /\ Len(edges) < MaxEdges
  /\ SetStore(insert_edge(G, Edge(src, dest, weight)))
  /\ last' = Call("insert_edge", 0, FALSE)
  /\ snap' = <<>>
  /\ UNCHANGED <<pc, q, pq, in_mst, stdlib, origin, nlines, runs>>

\* bfs(src), up to the while loop.
BfsBegin(src) ==
  /\ pc = "idle"
  /\ runs < MaxRuns
  /\ LET r == bfs_init(nodes, src)
     IN  nodes' = r.nodes /\ q' = r.q
  /\ pc' = "bfs"
  /\ snap' = IF last.op = "bfs" /\ last.a = src THEN Marks(nodes) ELSE <<>>
  /\ last' = Call("bfs", src, FALSE)
  /\ runs' = runs + 1
  /\ UNCHANGED <<edges, tot_nodes, tot_edges, pq, in_mst, stdlib, origin, nlines>>

\* bfs: one turn of the while loop; bfs returns when the queue is empty.
BfsStep ==
  /\ pc = "bfs"
  /\ LET r == bfs_step(nodes, q)
     IN  /\ nodes' = r.nodes
         /\ q' = r.q
         /\ pc' = IF r.q = <<>> THEN "idle" ELSE "bfs"
  /\ UNCHANGED <<edges, tot_nodes, tot_edges, pq, in_mst, stdlib, last, snap, origin,
                 nlines, runs>>

\* prim(src), up to the while loop.
PrimBegin(src) ==
  /\ pc = "idle"
  /\ runs < MaxRuns
  /\ LET r == prim_init(nodes, src)
     IN  nodes' = r.nodes /\ pq' = r.pq /\ in_mst' = r.in_mst
  /\ pc' = "prim"
  /\ snap' = IF last.op = "prim" /\ last.a = src THEN Marks(nodes) ELSE <<>>
  /\ last' = Call("prim", src, FALSE)
  /\ runs' = runs + 1
  /\ UNCHANGED <<edges, tot_nodes, tot_edges, q, stdlib, origin, nlines>>

\* prim: one turn of the while loop; prim returns when the queue is empty, and
\* its locals pq and in_mst are gone.
PrimStep ==
  /\ pc = "prim"
  /\ LET r == prim_step(nodes, edges, pq, in_mst, stdlib)
     IN  /\ nodes' = r.nodes
         /\ pq' = r.pq
         /\ in_mst' = IF r.pq = <<>> THEN {} ELSE r.in_mst
         /\ pc' = IF r.pq = <<>> THEN "idle" ELSE "prim"
  /\ UNCHANGED <<edges, tot_nodes, tot_edges, q, stdlib, last, snap, origin, nlines,
                 runs>>

IsBinary ==
  /\ pc = "idle"
  /\ LET r == is_binary(nodes)
     IN  /\ nodes' = r.nodes
         /\ last' = Call("is_binary", 0, r.ret)
  /\ snap' = <<>>
  /\ UNCHANGED <<edges, tot_nodes, tot_edges, pc, q, pq, in_mst, stdlib, origin,
                 nlines, runs>>

IsCompleteBinary ==
  /\ pc = "idle"
  /\ LET r == is_complete_binary(nodes)
     IN  /\ nodes' = r.nodes
         /\ last' = Call("is_complete_binary", 0, r.ret)
  /\ snap' = <<>>
  /\ UNCHANGED <<edges, tot_nodes, tot_edges, pc, q, pq, in_mst, stdlib, origin,
                 nlines, runs>>

NodeRefs == 1..Len(nodes)

Next ==
  \/ Reset
  \/ \E n \in 0..MaxNodes, e \in 0..MaxEdges : LoadBegin(n, e)
  \/ \E s \in LineIds, d \in LineIds, w \in Weights : LoadLine(s, d, w)
  \/ LoadEnd
  \/ InsertNode(Len(nodes))
  \/ \E s \in NodeRefs, d \in NodeRefs, w \in Weights : InsertEdge(s, d, w)
  \/ \E s \in NodeRefs : BfsBegin(s)
  \/ BfsStep
  \/ \E s \in NodeRefs : PrimBegin(s)
  \/ PrimStep
  \/ IsBinary
  \/ IsCompleteBinary

Spec == Init /\ [][Next]_vars

-----------------------------------------------------------------------------
(* prim on larger graphs: five nodes, node 0 joined to every other node,    *)
(* and two more edges between the other nodes, loaded from a file.          *)

MstNodes == 5
MstMaxWeight == 3
MstWeights == 1..MstMaxWeight

\* load, the edge lines of a file one after the other.
RECURSIVE load_lines(_, _, _)
load_lines(g, lines, k) ==
  IF k > Len(lines) THEN g
  ELSE load_lines(load_line(g, lines[k][1], lines[k][2], lines[k][3]), lines, k + 1)

\* load of a whole file: the header "n e" and the edge lines.
load(g, n, e, lines) == load_lines(load_header(g, n, e), lines, 1)

\* The pairs a < b of node ids other than 0.
Chords == {c \in (1..(MstNodes - 1)) \X (1..(MstNodes - 1)) : c[1] < c[2]}

StarLines(ws) == [i \in 1..(MstNodes - 1) |-> <<0, i, ws[i]>>]

InitMST ==
  /\ \E ws \in [1..(MstNodes - 1) -> MstWeights], c1 \in Chords, c2 \in Chords,
        w1 \in MstWeights, w2 \in MstWeights :
       /\ c1 # c2
       /\ LET g == load(G, MstNodes, MstNodes + 1,
                        StarLines(ws) \o << <<c1[1], c1[2], w1>>, <<c2[1], c2[2], w2>> >>)
          IN  /\ nodes = g.nodes
              /\ edges = g.edges
              /\ tot_nodes = g.tot_nodes
              /\ tot_edges = g.tot_edges
  /\ pc = "idle"
  /\ q = <<>>
  /\ pq = <<>>
  /\ in_mst = {}
  /\ stdlib \in Builds
  /\ last = Call("load", 0, FALSE)
  /\ snap = <<>>
  /\ origin = "load"
  /\ nlines = 0
  /\ runs = 0

\* One run of prim from node 0.
NextMST ==
  \/ runs = 0 /\ PrimBegin(get_node(nodes, 0))
  \/ PrimStep

SpecMST == InitMST /\ [][NextMST]_vars

-----------------------------------------------------------------------------
(* prim with weights of both signs: three nodes and three edge lines between *)
(* any two of them, self-loops and parallel edges included, loaded from a    *)
(* file, and one run of prim from any node.                                  *)

IntNodes == 3
IntLines == 3
IntMaxWeight == 1
IntWeights == (-IntMaxWeight)..IntMaxWeight

\* The edge lines "a b w" with a <= b (insert_edge and get_edge treat both
\* orders of the endpoints alike).
IntEdgeLines ==
  {l \in (0..(IntNodes - 1)) \X (0..(IntNodes - 1)) \X IntWeights : l[1] <= l[2]}

InitInt ==
  /\ \E lines \in [1..IntLines -> IntEdgeLines] :
       LET g == load(G, IntNodes, IntLines, lines)
       IN  /\ nodes = g.nodes
           /\ edges = g.edges
           /\ tot_nodes = g.tot_nodes
           /\ tot_edges = g.tot_edges
  /\ pc = "idle"
  /\ q = <<>>
  /\ pq = <<>>
  /\ in_mst = {}
  /\ stdlib \in Builds
  /\ last = Call("load", 0, FALSE)
  /\ snap = <<>>
  /\ origin = "load"
  /\ nlines = 0
  /\ runs = 0

\* One run of prim from any node.
NextInt ==
  \/ runs = 0 /\ \E s \in NodeRefs : PrimBegin(s)
  \/ PrimStep

SpecInt == InitInt /\ [][NextInt]_vars

\* prim runs to its end without waiting for anything: a turn of its loop that
\* can be taken is taken.
SpecIntLive == SpecInt /\ WF_vars(PrimStep)

-----------------------------------------------------------------------------
(* bfs and prim as whole calls, and what the claims compare them with *)

RECURSIVE bfs_loop(_, _)
bfs_loop(ns, qu) ==
  IF qu = <<>> THEN ns
  ELSE LET r == bfs_step(ns, qu) IN bfs_loop(r.nodes, r.q)

\* bfs(src): the nodes when it returns.
bfs(ns, src) == LET r == bfs_init(ns, src) IN bfs_loop(r.nodes, r.q)

RECURSIVE prim_loop(_, _, _, _, _)
prim_loop(ns, es, h, mst, lib) ==
  IF h = <<>> THEN ns
  ELSE LET r == prim_step(ns, es, h, mst, lib)
       IN  prim_loop(r.nodes, es, r.pq, r.in_mst, lib)

\* prim(src): the nodes when it returns.
prim(ns, es, src, lib) ==
  LET r == prim_init(ns, src) IN prim_loop(r.nodes, es, r.pq, r.in_mst, lib)

\* The values of Color that graph.hpp uses.
Colors == {"white", "gray", "black"}

\* The nodes with the same ids and adjacency lists, never searched: every
\* marker is c, as a constructor that sets the marker leaves it.
Unsearched(ns, c) ==
  [i \in 1..Len(ns) |->
     [ns[i] EXCEPT !.color = c, !.distance = Node(0).distance,
                   !.predecessor = Node(0).predecessor]]

Done(op) == pc = "idle" /\ last.op = op

\* The edge records of es whose index is in S.
Records(es, S) == {es[k] : k \in S}
AllRecords(es) == Records(es, 1..Len(es))

\* The nodes joined to u by an edge record of the set E.
Neighbours(E, u) ==
  {e.destination : e \in {x \in E : x.source = u}}
  \cup {e.source : e \in {x \in E : x.destination = u}}

\* The nodes at most k edges of E away from s.
RECURSIVE Within(_, _, _)
Within(E, s, k) ==
  IF k = 0 THEN {s}
  ELSE LET B == Within(E, s, k - 1)
       IN  B \cup UNION {Neighbours(E, u) : u \in B}

\* The nodes of the connected component of s, in a graph of n nodes.
Component(E, n, s) == Within(E, s, n)

\* The least number of edges on a path from s to v, INT_MAX when there is none.
HopCount(E, n, s, v) ==
  IF v \notin Component(E, n, s) THEN INT_MAX
  ELSE CHOOSE k \in 0..n :
         /\ v \in Within(E, s, k)
         /\ k = 0 \/ v \notin Within(E, s, k - 1)

\* No self-loop and no two edges between the same two nodes.
Simple(es) ==
  \A k \in 1..Len(es) :
    /\ es[k].source # es[k].destination
    /\ \A j \in 1..(k - 1) :
         {es[j].source, es[j].destination} # {es[k].source, es[k].destination}

Connected(es, n) == n > 0 /\ Component(AllRecords(es), n, 1) = 1..n

RECURSIVE SumWeights(_, _)
SumWeights(es, S) ==
  IF S = {} THEN 0
  ELSE LET k == CHOOSE x \in S : TRUE IN es[k].weight + SumWeights(es, S \ {k})

\* The weights of the spanning trees of the graph, each a set of n - 1 edges
\* that joins all n nodes, and the least of them.
SpanningTreeWeights(es, n) ==
  {SumWeights(es, S) :
     S \in {T \in SUBSET (1..Len(es)) :
              Cardinality(T) = n - 1 /\ Component(Records(es, T), n, 1) = 1..n}}

MSTWeight(es, n) ==
  CHOOSE w \in SpanningTreeWeights(es, n) : \A x \in SpanningTreeWeights(es, n) : w <= x

\* The node reached from v by following predecessors, at most k of them.
RECURSIVE Root(_, _, _)
Root(ns, v, k) ==
  IF k = 0 \/ ns[v].predecessor = NULL THEN v ELSE Root(ns, ns[v].predecessor, k - 1)

\* The edges {v, predecessor(v)}, v # s, are edges of the graph and lead every
\* node to s: a spanning tree rooted at s.
PredecessorTree(ns, es, s) ==
  \A v \in (1..Len(ns)) \ {s} :
    /\ ns[v].predecessor # NULL
    /\ get_edge(es, v, ns[v].predecessor) # NULL
    /\ Root(ns, v, Len(ns)) = s

RECURSIVE SumDistances(_, _)
SumDistances(ns, i) ==
  IF i > Len(ns) THEN 0 ELSE ns[i].distance + SumDistances(ns, i + 1)

-----------------------------------------------------------------------------
(* C1 *)

\* C1: when bfs(s) has returned, every node's distance is the least number of
\* edges on a path from s to it, and INT_MAX when no path leads to it.
C1_BfsDistances ==
  Done("bfs") =>
    \A v \in NodeRefs :
      nodes[v].distance = HopCount(AllRecords(edges), Len(nodes), last.a, v)

\* bfs has returned on a path of three nodes, run from one of its ends.
C1_Witness ==
  /\ Done("bfs")
  /\ \E v \in NodeRefs : nodes[v].distance = 2

-----------------------------------------------------------------------------
(* C2 *)

\* C2: when prim(s) has returned on a connected graph without self-loops or
\* parallel edges whose weights are not negative, the edges {v, predecessor(v)}
\* form a spanning tree and the recorded distances add up to the weight of a
\* minimum spanning tree.
C2_PrimYieldsMST ==
  (/\ Done("prim")
   /\ Simple(edges)
   /\ Connected(edges, Len(nodes))
   /\ \A k \in 1..Len(edges) : edges[k].weight >= 0)
  => /\ PredecessorTree(nodes, edges, last.a)
     /\ SumDistances(nodes, 1) = MSTWeight(edges, Len(nodes))

-----------------------------------------------------------------------------
(* C3 *)

\* C3: a run of bfs or prim started right after the same run from the same
\* source leaves every node the distance and the predecessor it had before.
C3_SecondRunSame ==
  ((Done("bfs") \/ Done("prim")) /\ snap # <<>>) => Marks(nodes) = snap

\* prim has returned for the second time in a row from the same source, and
\* has given some node a predecessor.
C3_Witness ==
  /\ Done("prim")
  /\ snap # <<>>
  /\ \E v \in NodeRefs : nodes[v].predecessor # NULL

-----------------------------------------------------------------------------
(* C4 *)

\* The visit marker, the distance and the predecessor of every node.
SearchState(ns) ==
  [i \in 1..Len(ns) |-> <<ns[i].color, ns[i].distance, ns[i].predecessor>>]

\* C4 as claimed: when bfs or prim has returned, the marker, the distance and
\* the predecessor of every node are those the same call leaves on the same
\* graph when no run came before it (whichever marker new nodes carry).
C4_SearchStateFromGraphAndSource ==
  \E c \in Colors :
    /\ Done("bfs") =>
         SearchState(nodes) = SearchState(bfs(Unsearched(nodes, c), last.a))
    /\ Done("prim") =>
         SearchState(nodes)
           = SearchState(prim(Unsearched(nodes, c), edges, last.a, stdlib))

\* C4 as amended: when bfs has returned, the marker, the distance and the
\* predecessor of every node, and when prim has returned, the distance and the
\* predecessor of every node, are those the same call leaves on the same graph
\* when no run came before it.
C4_MarksFromGraphAndSource ==
  \A c \in Colors :
    /\ Done("bfs") =>
         SearchState(nodes) = SearchState(bfs(Unsearched(nodes, c), last.a))
    /\ Done("prim") =>
         Marks(nodes) = Marks(prim(Unsearched(nodes, c), edges, last.a, stdlib))

\* prim has returned after a bfs that blackened a node and gave some node a
\* predecessor that prim has taken away again.
C4_Witness ==
  /\ Done("prim")
  /\ runs = 2
  /\ \E v \in NodeRefs : nodes[v].color = "black" /\ nodes[v].distance = INT_MAX
  /\ \E v \in NodeRefs : nodes[v].predecessor # NULL

-----------------------------------------------------------------------------
(* C5 *)

\* The number of entries of v's adjacency list that are not v's predecessor.
NonPredecessorEntries(ns, v) ==
  Cardinality({k \in 1..Len(ns[v].adj) : ns[v].adj[k] # ns[v].predecessor})

\* C5: is_binary returns false exactly when some node has more than two
\* adjacency-list entries that are not its predecessor.
C5_IsBinary ==
  Done("is_binary") =>
    (last.ret = FALSE <=> \E v \in NodeRefs : NonPredecessorEntries(nodes, v) > 2)

\* is_binary has returned false on a graph in which a run has left predecessors.
C5_Witness ==
  /\ Done("is_binary")
  /\ last.ret = FALSE
  /\ \E v \in NodeRefs : nodes[v].predecessor # NULL

-----------------------------------------------------------------------------
(* C6 *)

\* C6: is_complete_binary returns false exactly when some node has exactly one
\* adjacency-list entry that is not its predecessor.
C6_IsCompleteBinary ==
  Done("is_complete_binary") =>
    (last.ret = FALSE <=> \E v \in NodeRefs : NonPredecessorEntries(nodes, v) = 1)

\* is_complete_binary has returned true on a graph with a node of no such
\* entry (its only neighbour is its predecessor) and a node of two.
C6_Witness ==
  /\ Done("is_complete_binary")
  /\ last.ret = TRUE
  /\ \E v \in NodeRefs : nodes[v].adj # <<>> /\ NonPredecessorEntries(nodes, v) = 0
  /\ \E v \in NodeRefs : NonPredecessorEntries(nodes, v) >= 2

-----------------------------------------------------------------------------
(* C7 *)

\* C7: when load has returned after dropping an edge line that names an
\* unknown node, the edge count is the number of edges stored.
C7_LoadCountsStoredEdges ==
  (Done("load") /\ last.a > 0) => tot_edges = Len(edges)

\* The part of C7 that holds: a line naming an unknown node leaves the edges
\* and every adjacency list as they were.
C7_DroppedLineChangesNothing ==
  [][\A s \in LineIds, d \in LineIds, w \in Weights :
       (/\ LoadLine(s, d, w)
        /\ get_node(nodes, s) = NULL \/ get_node(nodes, d) = NULL)
       => UNCHANGED <<nodes, edges>>]_vars

-----------------------------------------------------------------------------
(* C8 *)

\* C8: as long as no load has followed the last reset, the node count is the
\* number of nodes stored and the edge count the number of edges stored; right
\* after reset both storages are empty and both counts are 0.
C8_CountsMatchStorage ==
  origin = "reset" =>
    /\ tot_nodes = Len(nodes)
    /\ tot_edges = Len(edges)
    /\ last.op = "reset" =>
         nodes = <<>> /\ edges = <<>> /\ tot_nodes = 0 /\ tot_edges = 0

\* An edge has just been inserted into a store built from a reset on.
C8_Witness ==
  /\ origin = "reset"
  /\ last.op = "insert_edge"
  /\ Len(edges) = MaxEdges

-----------------------------------------------------------------------------
(* C9 *)

\* C9: when prim(s) has returned, every node outside the connected component
\* of s has distance INT_MAX and no predecessor.
C9_PrimLeavesOtherComponents ==
  Done("prim") =>
    \A v \in NodeRefs \ Component(AllRecords(edges), Len(nodes), last.a) :
      nodes[v].distance = INT_MAX /\ nodes[v].predecessor = NULL

\* prim has returned after reaching a node, with another node out of reach
\* that an earlier bfs had reached.
C9_Witness ==
  /\ Done("prim")
  /\ \E v \in NodeRefs : nodes[v].predecessor # NULL
  /\ \E v \in NodeRefs \ Component(AllRecords(edges), Len(nodes), last.a) :
       nodes[v].color = "black"

-----------------------------------------------------------------------------
(* C10 *)

\* C10: a call of is_binary or is_complete_binary leaves the nodes (ids,
\* adjacency lists, markers, distances, predecessors), the edges and both
\* counts as they were.
C10_ShapeCallsReadOnly ==
  [][(IsBinary \/ IsCompleteBinary) => UNCHANGED <<nodes, edges, tot_nodes, tot_edges>>]_vars

\* is_complete_binary has returned false, by its early return, on a graph a
\* run has searched.
C10_Witness ==
  /\ Done("is_complete_binary")
  /\ last.ret = FALSE
  /\ \E v \in NodeRefs : nodes[v].color = "black"

-----------------------------------------------------------------------------
(* C11 *)

\* C11: whenever prim is about to take a node from the priority queue, the
\* node at the top has a distance no greater than the distance of any node
\* that has an entry in the queue.
C11_ExtractedIsMinimum ==
  pc = "prim" =>
    \A k \in 1..Len(pq) : nodes[pq[1]].distance <= nodes[pq[k]].distance

-----------------------------------------------------------------------------
(* C12 *)

\* v is an entry of u's adjacency list.
Adjacent(ns, u, v) == \E k \in 1..Len(ns[u].adj) : ns[u].adj[k] = v

\* C12: in every store built by insert_node and insert_edge, v is in u's
\* adjacency list exactly when an edge record joins u and v in one direction
\* or the other, v is in u's list exactly when u is in v's, and get_edge(u, v)
\* finds an edge for every entry v of u's list, so also for the node prim has
\* at the top of its queue.
C12_AdjacencyMatchesEdges ==
  /\ \A u \in NodeRefs, v \in NodeRefs :
       /\ Adjacent(nodes, u, v)
            <=> \E e \in AllRecords(edges) :
                  \/ e.source = u /\ e.destination = v
                  \/ e.source = v /\ e.destination = u
       /\ Adjacent(nodes, u, v) <=> Adjacent(nodes, v, u)
       /\ Adjacent(nodes, u, v) => get_edge(edges, u, v) # NULL
  /\ pc = "prim" =>
       \A k \in 1..Len(nodes[pq[1]].adj) :
         get_edge(edges, pq[1], nodes[pq[1]].adj[k]) # NULL

\* prim is about to take a node whose adjacency list has two entries, one of
\* them for an edge stored with this node as its destination.
C12_Witness ==
  /\ pc = "prim"
  /\ Len(nodes[pq[1]].adj) = 2
  /\ \E k \in 1..2 :
       LET adj == nodes[pq[1]].adj[k]
       IN  /\ adj # pq[1]
           /\ edges[get_edge(edges, pq[1], adj)].destination = pq[1]

-----------------------------------------------------------------------------
(* C13 *)

\* C13: a turn of prim's loop leaves the distance and the predecessor of the
\* node it commits, and of every node committed before, as they were,
\* whatever the sign of the weights.
C13_CommittedNotWritten ==
  [][pc = "prim" =>
       \A v \in in_mst \cup {pq[1]} :
         /\ nodes'[v].distance = nodes[v].distance
         /\ nodes'[v].predecessor = nodes[v].predecessor]_vars

\* Two committed nodes are joined by an edge of negative weight that is less
\* than the distance one of them keeps.
C13_Witness ==
  /\ pc = "prim"
  /\ \E u \in in_mst, v \in in_mst :
       /\ u # v
       /\ Adjacent(nodes, u, v)
       /\ edges[get_edge(edges, u, v)].weight < 0
       /\ nodes[u].distance > edges[get_edge(edges, u, v)].weight

-----------------------------------------------------------------------------
(* C14 *)

\* C14: a turn of prim's loop that takes from the queue a node committed
\* before leaves every node's distance and predecessor as they were, and the
\* queue one entry shorter.
C14_StaleEntryChangesNothing ==
  [][(pc = "prim" /\ pq[1] \in in_mst) =>
       /\ Marks(nodes') = Marks(nodes)
       /\ Len(pq') = Len(pq) - 1]_vars

\* The node at the top of the queue was committed before, it has a neighbour
\* that is not committed, and other entries wait behind it.
C14_Witness ==
  /\ pc = "prim"
  /\ pq[1] \in in_mst
  /\ Len(pq) > 1
  /\ \E v \in NodeRefs \ in_mst : Adjacent(nodes, pq[1], v)

-----------------------------------------------------------------------------
(* C15 *)

\* C15: a turn of bfs's loop leaves a node's marker as it was or moves it
\* from white to gray or from gray to black; and when bfs(s) has returned no
\* node is gray, the nodes that a path joins to s are black and the others
\* are white.
C15_MarkersMoveForward ==
  /\ [][pc = "bfs" =>
          \A v \in NodeRefs :
            \/ nodes'[v].color = nodes[v].color
            \/ nodes[v].color = "white" /\ nodes'[v].color = "gray"
            \/ nodes[v].color = "gray" /\ nodes'[v].color = "black"]_vars
  /\ [](Done("bfs") =>
          \A v \in NodeRefs :
            nodes[v].color
              = IF v \in Component(AllRecords(edges), Len(nodes), last.a)
                THEN "black" ELSE "white")

\* bfs has returned with a node blackened after its discovery from another
\* node, and a node left white.
C15_Witness ==
  /\ Done("bfs")
  /\ \E v \in NodeRefs : nodes[v].color = "black" /\ nodes[v].predecessor # NULL
  /\ \E v \in NodeRefs : nodes[v].color = "white"

-----------------------------------------------------------------------------
(* C16 *)

\* C16: when bfs(s) has returned, s has no predecessor, a node that no path
\* joins to s has no predecessor, and every other node v has a predecessor
\* that is an entry of v's adjacency list and whose distance is one less than
\* v's; following predecessors from v leads to s.
C16_PredecessorsLeadToSource ==
  Done("bfs") =>
    \A v \in NodeRefs :
      IF v = last.a \/ v \notin Component(AllRecords(edges), Len(nodes), last.a)
      THEN nodes[v].predecessor = NULL
      ELSE /\ nodes[v].predecessor # NULL
           /\ Adjacent(nodes, v, nodes[v].predecessor)
           /\ nodes[v].distance = nodes[nodes[v].predecessor].distance + 1
           /\ Root(nodes, v, Len(nodes)) = last.a

\* bfs has returned with a node whose predecessor has the source as its
\* predecessor.
C16_Witness ==
  /\ Done("bfs")
  /\ \E v \in NodeRefs :
       /\ nodes[v].predecessor # NULL
       /\ nodes[nodes[v].predecessor].predecessor = last.a

-----------------------------------------------------------------------------
(* C17 *)

\* The number of entries of the priority queue h that are the node v.
Entries(h, v) == Cardinality({k \in 1..Len(h) : h[k] = v})

\* C17: a turn of prim's loop adds entries for a node to the priority queue
\* only when it lowers the distance of that node and the node is not
\* committed; and every run of prim comes to the point where the queue is
\* empty and prim returns.
C17_PrimTerminates ==
  /\ [][pc = "prim" =>
          \A v \in NodeRefs :
            Entries(pq', v) > Entries(pq, v) - (IF v = pq[1] THEN 1 ELSE 0)
              => /\ v \notin in_mst \cup {pq[1]}
                 /\ nodes'[v].distance < nodes[v].distance]_vars
  /\ (pc = "prim") ~> (pc = "idle" /\ pq = <<>>)

\* prim has returned after lowering, to a negative weight, the distance of a
\* node that it had queued first as a neighbour of the source.
C17_Witness ==
  /\ Done("prim")
  /\ pq = <<>>
  /\ \E v \in NodeRefs :
       /\ Adjacent(nodes, v, last.a)
       /\ nodes[v].predecessor \notin {NULL, last.a}
       /\ nodes[v].distance < 0

-----------------------------------------------------------------------------
(* C18 *)

\* The number of black nodes: in a run of bfs, the nodes dequeued so far.
Blackened(ns) == Cardinality({v \in 1..Len(ns) : ns[v].color = "black"})

\* C18: while bfs runs its queue holds gray nodes only and no node twice; a
\* turn of its loop enqueues a node only if the node was white, and leaves it
\* gray, no node becomes white again, and the turn blackens one more node:
\* the dequeued one.  So no node is enqueued twice and bfs returns after at
\* most as many turns as there are nodes.
C18_EnqueuedOnce ==
  /\ [](pc = "bfs" =>
          /\ \A k \in 1..Len(q) : nodes[q[k]].color = "gray"
          /\ \A v \in NodeRefs : Entries(q, v) <= 1
          /\ Blackened(nodes) + Len(q) <= Len(nodes))
  /\ [][pc = "bfs" =>
          /\ \A v \in NodeRefs :
               /\ Entries(q', v) > Entries(Tail(q), v)
                    => nodes[v].color = "white" /\ nodes'[v].color = "gray"
               /\ nodes[v].color # "white" => nodes'[v].color # "white"
          /\ nodes'[Head(q)].color = "black"
          /\ Blackened(nodes') = Blackened(nodes) + 1]_vars

\* bfs has dequeued a node and has a node in its queue, on a graph with a
\* self-loop or two edges between the same two nodes.
C18_Witness ==
  /\ pc = "bfs"
  /\ Blackened(nodes) > 0
  /\ q # <<>>
  /\ ~Simple(edges)

=============================================================================
